---- MODULE Spec2Model ----
(***************************************************************************)
(* A model of MZifier.py: the four rewrite stages of convert_text and the  *)
(* batch driver main.                                                      *)
(*                                                                         *)
(* A text is a sequence of tokens.  A token stands for a fixed piece of    *)
(* source text that no pattern of the program can match across or inside:  *)
(* the header delimiters, a line terminator, one receiver.helper name, a   *)
(* parenthesis, an identifier.  What the regular expressions of the        *)
(* program look at (the first and last character class of a piece for \b,  *)
(* whether it is whitespace for \s, whether it holds a newline for .) is   *)
(* kept per token, and the matching below follows Python's re: leftmost    *)
(* match, greedy \s*, lazy (.*?), non-overlapping substitution.            *)
(***************************************************************************)
EXTENDS Integers, Sequences, FiniteSets, TLC

\* ------------------------------------------------------------------ tokens

OPEN == "/*:"
CLOSE == "*/"
TARGET == "@target"
TARGET_LINE == " * @target MZ"
LF == "\n"
CRLF == "\r\n"
SP == " "
LPAREN == "("
RPAREN == ")"
IDENT == "a"
WINDOW_BASE == "Window_Base.prototype."
WINDOW_STATUSBASE == "Window_StatusBase.prototype."
GAUGE == "Gauge"
PLUGIN_COMMAND == "Game_Interpreter.prototype.pluginCommand"
TODO_LINE1 == "// [MZ TODO] Detected MV-style pluginCommand. In MZ, migrate to:"
TODO_LINE2_HEAD == "// PluginManager.registerCommand"
TODO_LINE2_ARGS == "pluginName, command, handler"
TODO_LINE3 == "// and use @command/@arg annotations in the header."

\* The annotation text of annotate_plugin_command_todos, token by token.
TODO ==
  <<LF, TODO_LINE1, LF, TODO_LINE2_HEAD, LPAREN, TODO_LINE2_ARGS, RPAREN, LF,
    TODO_LINE3, LF>>

\* Tokens whose first and last characters are both outside \w.
NonWordTokens == {OPEN, CLOSE, LF, CRLF, SP, LPAREN, RPAREN, TODO_LINE1, TODO_LINE3}

\* The first character of the token is a word character (\w).
StartsWord(t) == t \notin NonWordTokens \cup {TARGET, TARGET_LINE, TODO_LINE2_HEAD}

\* The last character of the token is a word character (\w).
EndsWord(t) == t \notin NonWordTokens \cup {WINDOW_BASE, WINDOW_STATUSBASE}

\* \s matches the whole token.
IsSpace(t) == t \in {SP, LF, CRLF}

\* The token is a line terminator: str.splitlines splits at it, and the . of
\* a pattern cannot run across it.
IsLineBreak(t) == t \in {LF, CRLF}

\* ------------------------------------------------------------------ catalogs

WINDOW_BASE_TO_STATUSBASE_METHODS ==
  <<"drawActorSimpleStatus", "drawActorName", "drawActorClass", "drawActorNickname",
    "drawActorLevel", "drawActorIcons", "drawActorHp", "drawActorMp", "drawActorTp",
    "drawActorHpGauge", "drawActorMpGauge", "drawActorTpGauge", "placeActorName",
    "placeGauge">>

\* A method name as tokens: drawActorHpGauge is drawActorHp followed by Gauge,
\* so that the text Window_Base.prototype.drawActorHpGauge reads the same
\* whichever entry looks at it.
MethodTokens(m) ==
  CASE m = "drawActorHpGauge" -> <<"drawActorHp", GAUGE>>
    [] m = "drawActorMpGauge" -> <<"drawActorMp", GAUGE>>
    [] m = "drawActorTpGauge" -> <<"drawActorTp", GAUGE>>
    [] OTHER -> <<m>>

\* (pattern, replacement) pairs: this is the receiver.helper the pattern
\* names, cm the name the replacement emits, arg whether the pattern holds
\* the group (.*?) and the replacement \1.
COLOR_REPLACEMENTS ==
  << [this |-> "this.systemColor", cm |-> "ColorManager.systemColor", arg |-> FALSE],
     [this |-> "this.crisisColor", cm |-> "ColorManager.crisisColor", arg |-> FALSE],
     [this |-> "this.deathColor", cm |-> "ColorManager.deathColor", arg |-> FALSE],
     [this |-> "this.gaugeBackColor", cm |-> "ColorManager.gaugeBackColor", arg |-> FALSE],
     [this |-> "this.hpColor", cm |-> "ColorManager.hpColor", arg |-> TRUE],
     [this |-> "this.mpColor", cm |-> "ColorManager.mpColor", arg |-> TRUE],
     [this |-> "this.tpColor", cm |-> "ColorManager.tpColor", arg |-> TRUE],
     [this |-> "this.mpCostColor", cm |-> "ColorManager.mpCostColor", arg |-> FALSE],
     [this |-> "this.powerUpColor", cm |-> "ColorManager.powerUpColor", arg |-> FALSE],
     [this |-> "this.powerDownColor", cm |-> "ColorManager.powerDownColor", arg |-> FALSE],
     [this |-> "this.paramchangeTextColor", cm |-> "ColorManager.paramchangeTextColor",
      arg |-> TRUE],
     [this |-> "this.textColor", cm |-> "ColorManager.textColor", arg |-> TRUE],
     [this |-> "this.normalColor", cm |-> "ColorManager.normalColor", arg |-> FALSE] >>

MV_PLUGIN_COMMAND_SIGNS == <<PLUGIN_COMMAND>>

\* ------------------------------------------------------------------ matching

Min(S) == CHOOSE x \in S : \A y \in S : x <= y

\* \b at the gap before position p (1 .. Len(text) + 1).
WordBoundary(text, p) ==
  LET left == p > 1 /\ EndsWord(text[p - 1])
      right == p <= Len(text) /\ StartsWord(text[p])
  IN left # right

\* Greedy \s* from position p: the first position at or after p that holds no
\* whitespace (Len(text) + 1 when the text ends first).
SkipSpace(text, p) ==
  Min({q \in p..(Len(text) + 1) :
         /\ \A k \in p..(q - 1) : IsSpace(text[k])
         /\ (q > Len(text) \/ ~IsSpace(text[q]))})

\* The literal tokens lit occur in text from position p on.
LiteralAt(text, p, lit) ==
  /\ p + Len(lit) - 1 <= Len(text)
  /\ \A k \in 1..Len(lit) : text[p + k - 1] = lit[k]

NoMatch == [ok |-> FALSE, last |-> 0, group |-> <<>>]

\* The pattern without its closing \b: it also matches where the method name
\* is only the start of a longer name.
MatchWindowBase_NoClosingBoundary(method, text, p) ==
  LET lit == <<WINDOW_BASE>> \o MethodTokens(method)
  IN IF WordBoundary(text, p) /\ LiteralAt(text, p, lit)
       THEN [ok |-> TRUE, last |-> p + Len(lit) - 1, group |-> <<>>]
       ELSE NoMatch

\* \bWindow_Base\.prototype\.<method>\b tried at position p.
MatchWindowBase(method, text, p) ==
  LET lit == <<WINDOW_BASE>> \o MethodTokens(method)
      last == p + Len(lit) - 1
  IN IF WordBoundary(text, p) /\ LiteralAt(text, p, lit) /\ WordBoundary(text, last + 1)
       THEN [ok |-> TRUE, last |-> last, group |-> <<>>]
       ELSE NoMatch

\* \bthis\.<helper>\s*\(\s*\) or \bthis\.<helper>\s*\(\s*(.*?)\s*\) tried at
\* position p.  After the greedy \s* the lazy group takes the fewest tokens,
\* none of them a line terminator, that leave only whitespace before a ).
MatchColor(entry, text, p) ==
  IF ~(WordBoundary(text, p) /\ LiteralAt(text, p, <<entry.this>>)) THEN NoMatch
  ELSE
    LET paren == SkipSpace(text, p + 1)
    IN IF ~LiteralAt(text, paren, <<LPAREN>>) THEN NoMatch
       ELSE
         LET from == SkipSpace(text, paren + 1)
             ends == {c \in (IF entry.arg THEN 0..(Len(text) + 1 - from) ELSE {0}) :
                        /\ \A k \in from..(from + c - 1) : ~IsLineBreak(text[k])
                        /\ LiteralAt(text, SkipSpace(text, from + c), <<RPAREN>>)}
         IN IF ends = {} THEN NoMatch
            ELSE [ok |-> TRUE,
                  last |-> SkipSpace(text, from + Min(ends)),
                  group |-> SubSeq(text, from, from + Min(ends) - 1)]

\* \bGame_Interpreter\.prototype\.pluginCommand\b tried at position p.
MatchSign(sig, text, p) ==
  IF WordBoundary(text, p) /\ LiteralAt(text, p, <<sig>>) /\ WordBoundary(text, p + 1)
    THEN [ok |-> TRUE, last |-> p, group |-> <<>>]
    ELSE NoMatch

\* A pattern is [kind, entry]; Match tries it at position p.
Match(pat, text, p) ==
  CASE pat.kind = "window" -> MatchWindowBase(pat.method, text, p)
    [] pat.kind = "color" -> MatchColor(pat.entry, text, p)
    [] pat.kind = "sign" -> MatchSign(pat.sig, text, p)

\* The replacement with the annotation written behind the signature instead
\* of in front of it.
Replacement_TodoBehind(pat, text, p, m) ==
  CASE pat.kind = "window" -> <<WINDOW_STATUSBASE>> \o MethodTokens(pat.method)
    [] pat.kind = "color" -> <<pat.entry.cm, LPAREN>> \o m.group \o <<RPAREN>>
    [] pat.kind = "sign" -> SubSeq(text, p, m.last) \o TODO

\* What a match is replaced by.
Replacement(pat, text, p, m) ==
  CASE pat.kind = "window" -> <<WINDOW_STATUSBASE>> \o MethodTokens(pat.method)
    [] pat.kind = "color" -> <<pat.entry.cm, LPAREN>> \o m.group \o <<RPAREN>>
    [] pat.kind = "sign" -> TODO \o SubSeq(text, p, m.last)

\* re.subn / pattern.sub: the leftmost match from p on is replaced and the
\* scan goes on behind it (matches do not overlap).
RECURSIVE SubnFrom(_, _, _)
SubnFrom(pat, text, p) ==
  IF p > Len(text) THEN [text |-> <<>>, n |-> 0]
  ELSE
    LET m == Match(pat, text, p)
    IN IF m.ok
         THEN LET rest == SubnFrom(pat, text, m.last + 1)
              IN [text |-> Replacement(pat, text, p, m) \o rest.text, n |-> rest.n + 1]
         ELSE LET rest == SubnFrom(pat, text, p + 1)
              IN [text |-> <<text[p]>> \o rest.text, n |-> rest.n]

Subn(pat, text) == SubnFrom(pat, text, 1)

\* pattern.search: where the leftmost match starts, 0 when there is none.
Search(pat, text) ==
  LET at == {p \in 1..Len(text) : Match(pat, text, p).ok}
  IN IF at = {} THEN 0 ELSE Min(at)

\* ------------------------------------------------------------------ stage 1

\* HEADER_BLOCK_RE.search: the first /*: that a */ follows, up to the nearest
\* such */ (start = 0: no header block).
HEADER_BLOCK_RE(source) ==
  LET opens == {p \in 1..Len(source) :
                  /\ source[p] = OPEN
                  /\ \E q \in (p + 1)..Len(source) : source[q] = CLOSE}
  IN IF opens = {} THEN [start |-> 0, end |-> 0]
     ELSE [start |-> Min(opens),
           end |-> Min({q \in (Min(opens) + 1)..Len(source) : source[q] = CLOSE})]

\* str.splitlines: the pieces between line terminators, the terminators
\* dropped, and no empty last piece behind a final terminator.
RECURSIVE splitlines(_)
splitlines(s) ==
  IF s = <<>> THEN <<>>
  ELSE
    LET breaks == {k \in 1..Len(s) : IsLineBreak(s[k])}
    IN IF breaks = {} THEN <<s>>
       ELSE <<SubSeq(s, 1, Min(breaks) - 1)>>
              \o splitlines(SubSeq(s, Min(breaks) + 1, Len(s)))

\* "\n".join(lines)
RECURSIVE join(_)
join(lines) ==
  IF lines = <<>> THEN <<>>
  ELSE IF Len(lines) = 1 THEN lines[1]
  ELSE lines[1] \o <<LF>> \o join(Tail(lines))

\* list.insert(at, x), at counted from 0.
insert(lines, at, x) ==
  SubSeq(lines, 1, at) \o <<x>> \o SubSeq(lines, at + 1, Len(lines))

\* "@target" in header
HasTarget(header) == \E k \in 1..Len(header) : header[k] \in {TARGET, TARGET_LINE}

add_target_mz(header) ==
  IF HasTarget(header) THEN header
  ELSE
    LET lines == splitlines(header)
    IN IF lines # <<>>
         THEN LET insert_at == IF Len(lines) > 1 THEN 1 ELSE 0
              IN join(insert(lines, insert_at, <<TARGET_LINE>>))
         ELSE header

\* The function reporting a change whenever it finds a header block.
ensure_header_ChangedWheneverFound(source) ==
  LET m == HEADER_BLOCK_RE(source)
  IN IF m.start = 0 THEN [source |-> source, changed |-> FALSE]
     ELSE [source |-> SubSeq(source, 1, m.start - 1)
                        \o add_target_mz(SubSeq(source, m.start, m.end))
                        \o SubSeq(source, m.end + 1, Len(source)),
           changed |-> TRUE]

ensure_header_has_target_mz(source) ==
  LET m == HEADER_BLOCK_RE(source)
  IN IF m.start = 0 THEN [source |-> source, changed |-> FALSE]
     ELSE
       LET header == SubSeq(source, m.start, m.end)
           new_header == add_target_mz(header)
       IN IF new_header # header
            THEN [source |-> SubSeq(source, 1, m.start - 1) \o new_header
                               \o SubSeq(source, m.end + 1, Len(source)),
                  changed |-> TRUE]
            ELSE [source |-> source, changed |-> FALSE]

\* ------------------------------------------------------------------ report lines

HeaderLine == [kind |-> "header", of |-> "Added '@target MZ' to plugin header.", n |-> 0]
WindowLine(method) == [kind |-> "window", of |-> method, n |-> 0]
ColorLine(entry, n) == [kind |-> "color", of |-> entry.this, n |-> n]
TodoLine ==
  [kind |-> "todo", of |-> "Annotated MV pluginCommand for manual conversion.", n |-> 0]

\* ------------------------------------------------------------------ stage 2

WindowPattern(method) == [kind |-> "window", method |-> method]

\* The loop of replace_window_base_methods over methods[i..].
RECURSIVE WindowLoop(_, _, _)
WindowLoop(methods, i, acc) ==
  IF i > Len(methods) THEN acc
  ELSE
    LET pattern == WindowPattern(methods[i])
    IN IF Search(pattern, acc.source) # 0
         THEN WindowLoop(methods, i + 1,
                [source |-> Subn(pattern, acc.source).text,
                 changes |-> Append(acc.changes, WindowLine(methods[i]))])
         ELSE WindowLoop(methods, i + 1, acc)

replace_window_base_methods(source) ==
  WindowLoop(WINDOW_BASE_TO_STATUSBASE_METHODS, 1, [source |-> source, changes |-> <<>>])

\* ------------------------------------------------------------------ stage 3

ColorPattern(entry) == [kind |-> "color", entry |-> entry]

\* The loop of replace_colors over COLOR_REPLACEMENTS[i..].
RECURSIVE ColorLoop(_, _, _)
ColorLoop(entries, i, acc) ==
  IF i > Len(entries) THEN acc
  ELSE
    LET r == Subn(ColorPattern(entries[i]), acc.source)
    IN IF r.n > 0
         THEN ColorLoop(entries, i + 1,
                [source |-> r.text,
                 changes |-> Append(acc.changes, ColorLine(entries[i], r.n))])
         ELSE ColorLoop(entries, i + 1, acc)

\* The function without its early return on keep_mv_color.
replace_colors_IgnoringKeep(source, keep) ==
  ColorLoop(COLOR_REPLACEMENTS, 1, [source |-> source, changes |-> <<>>])

replace_colors(source, keep) ==
  IF keep THEN [source |-> source, changes |-> <<>>]
  ELSE ColorLoop(COLOR_REPLACEMENTS, 1, [source |-> source, changes |-> <<>>])

\* ------------------------------------------------------------------ stage 4

SignPattern(sig) == [kind |-> "sign", sig |-> sig]

\* The loop of annotate_plugin_command_todos over MV_PLUGIN_COMMAND_SIGNS[i..].
RECURSIVE SignLoop(_, _, _)
SignLoop(sigs, i, acc) ==
  IF i > Len(sigs) THEN acc
  ELSE
    LET pattern == SignPattern(sigs[i])
    IN IF Search(pattern, acc.source) # 0
         THEN SignLoop(sigs, i + 1,
                [source |-> Subn(pattern, acc.source).text,
                 changes |-> Append(acc.changes, TodoLine)])
         ELSE SignLoop(sigs, i + 1, acc)

annotate_plugin_command_todos(source) ==
  SignLoop(MV_PLUGIN_COMMAND_SIGNS, 1, [source |-> source, changes |-> <<>>])

\* ------------------------------------------------------------------ convert_text

convert_text(source, keep) ==
  LET s1 == ensure_header_has_target_mz(source)
      s2 == replace_window_base_methods(s1.source)
      s3 == replace_colors(s2.source, keep)
      s4 == annotate_plugin_command_todos(s3.source)
  IN [source |-> s4.source,
      report |-> (IF s1.changed THEN <<HeaderLine>> ELSE <<>>)
                   \o s2.changes \o s3.changes \o s4.changes]

\* ------------------------------------------------------------------ inputs

\* The most pieces an input text of convert_text is put together from.
MaxPieces == 3

\* The most pieces an input text of a stage called alone is put together from.
MaxStagePieces == 4

\* Every text made of at most n pieces of F, in any order.
RECURSIVE TextsOf(_, _)
TextsOf(F, n) ==
  IF n = 0 THEN {<<>>}
  ELSE LET shorter == TextsOf(F, n - 1)
       IN shorter \cup {t \o f : t \in shorter, f \in F}

HeaderPieces == {<<OPEN>>, <<CLOSE>>, <<LF>>, <<CRLF>>, <<TARGET>>}
WindowPieces ==
  {<<WINDOW_BASE, "drawActorHp">>, <<WINDOW_BASE, "drawActorHp", GAUGE>>,
   <<WINDOW_BASE, "drawActorName">>, <<GAUGE>>, <<IDENT>>, <<SP>>}
ColorPieces ==
  {<<"this.hpColor", LPAREN>>, <<"this.textColor", LPAREN>>, <<RPAREN>>, <<IDENT>>, <<LF>>}
\* A text may hold the annotation already, or all of it but its last line end.
SignPieces ==
  {<<PLUGIN_COMMAND>>, TODO, SubSeq(TODO, 1, Len(TODO) - 1), <<IDENT>>, <<SP>>}
MixedPieces ==
  {<<OPEN>>, <<CLOSE>>, <<LF>>, <<WINDOW_BASE, "drawActorHp">>, <<"this.hpColor", LPAREN>>,
   <<RPAREN>>, <<PLUGIN_COMMAND>>}

\* The texts convert_text is run on.
Inputs ==
  TextsOf(HeaderPieces, MaxPieces) \cup TextsOf(WindowPieces, MaxPieces)
    \cup TextsOf(MixedPieces, MaxPieces)

\* The texts a stage is called on alone.
StageInputs ==
  TextsOf(HeaderPieces, MaxStagePieces) \cup TextsOf(ColorPieces, MaxStagePieces)
    \cup TextsOf(SignPieces, MaxStagePieces)

\* ------------------------------------------------------------------ state

VARIABLES
  source,         \* the text handed to convert_text (or to the stage called alone)
  keep_mv_color,  \* the --keep-mv-color flag
  pc,             \* the stage convert_text runs next, or the stage that returned
  pass,           \* 1: the first conversion; 2: the conversion of its own output
  text,           \* convert_text's local source, threaded from stage to stage
  before,         \* text as the last stage received it
  changes,        \* the change list the last stage returned
  report,         \* convert_text's report
  args,           \* main: the parsed command line
  fs,             \* main: the files, by path
  fs0,            \* main: the files as they were when main started
  idx,            \* main: the place of the loop in args.inputs
  mpc,            \* main: the statement main is at
  local,          \* main: text, converted, report and out_path of this round
  overall_ok,     \* main: the success flag
  status,         \* main: the value returned (-1: still running)
  out             \* main: the lines printed, as <<what, input index>>

textvars == <<source, keep_mv_color, pc, pass, text, before, changes, report>>
mainvars == <<args, fs, fs0, idx, mpc, local, overall_ok, status, out>>
vars == <<textvars, mainvars>>

NoLocal == [text |-> <<>>, converted |-> <<>>, report |-> <<>>]

\* main is not running.
MainIdle ==
  /\ args = [inputs |-> <<>>, output |-> <<>>, inplace |-> FALSE]
  /\ fs = <<>>
  /\ fs0 = <<>>
  /\ idx = 0
  /\ mpc = "idle"
  /\ local = NoLocal
  /\ overall_ok = TRUE
  /\ status = -1
  /\ out = <<>>

\* ------------------------------------------------------------------ convert_text, stage by stage

Init ==
  /\ source \in Inputs
  /\ keep_mv_color \in BOOLEAN
  /\ pc = "ensure_header"
  /\ pass = 1
  /\ text = source
  /\ before = source
  /\ changes = <<>>
  /\ report = <<>>
  /\ MainIdle

\* 1) Ensure @target MZ
EnsureHeader ==
  /\ pc = "ensure_header"
  /\ LET r == ensure_header_has_target_mz(text)
     IN /\ text' = r.source
        /\ changes' = IF r.changed THEN <<HeaderLine>> ELSE <<>>
        /\ report' = IF r.changed THEN Append(report, HeaderLine) ELSE report
  /\ before' = text
  /\ pc' = "replace_window_base"
  /\ UNCHANGED <<source, keep_mv_color, pass, mainvars>>

\* 2) Replace Window_Base.* actor helpers to Window_StatusBase.*
ReplaceWindowBase ==
  /\ pc = "replace_window_base"
  /\ LET r == replace_window_base_methods(text)
     IN /\ text' = r.source
        /\ changes' = r.changes
        /\ report' = report \o r.changes
  /\ before' = text
  /\ pc' = "replace_colors"
  /\ UNCHANGED <<source, keep_mv_color, pass, mainvars>>

\* 3) Color helpers -> ColorManager
ReplaceColors ==
  /\ pc = "replace_colors"
  /\ LET r == replace_colors(text, keep_mv_color)
     IN /\ text' = r.source
        /\ changes' = r.changes
        /\ report' = report \o r.changes
  /\ before' = text
  /\ pc' = "annotate_todos"
  /\ UNCHANGED <<source, keep_mv_color, pass, mainvars>>

\* 4) Leave TODO notes for MV plugin commands
AnnotateTodos ==
  /\ pc = "annotate_todos"
  /\ LET r == annotate_plugin_command_todos(text)
     IN /\ text' = r.source
        /\ changes' = r.changes
        /\ report' = report \o r.changes
  /\ before' = text
  /\ pc' = "done"
  /\ UNCHANGED <<source, keep_mv_color, pass, mainvars>>

\* The result text is fed to convert_text a second time, same keep_mv_color.
SecondPass ==
  /\ pc = "done"
  /\ pass = 1
  /\ source' = text
  /\ before' = text
  /\ changes' = <<>>
  /\ report' = <<>>
  /\ pass' = 2
  /\ pc' = "ensure_header"
  /\ UNCHANGED <<keep_mv_color, text, mainvars>>

\* One call of convert_text.
Next == EnsureHeader \/ ReplaceWindowBase \/ ReplaceColors \/ AnnotateTodos

Spec == Init /\ [][Next]_vars

\* convert_text, and convert_text again on what it returned.
NextTwice == Next \/ SecondPass

SpecTwice == Init /\ [][NextTwice]_vars

\* ------------------------------------------------------------------ the stages, each called alone

InitStages ==
  /\ source \in StageInputs
  /\ keep_mv_color = FALSE
  /\ pc = "call"
  /\ pass = 1
  /\ text = source
  /\ before = source
  /\ changes = <<>>
  /\ report = <<>>
  /\ MainIdle

\* ensure_header_has_target_mz(source); changes holds the line convert_text
\* reports when the call returns changed = True.
CallEnsureHeader ==
  /\ pc = "call"
  /\ LET r == ensure_header_has_target_mz(source)
     IN /\ text' = r.source
        /\ changes' = IF r.changed THEN <<HeaderLine>> ELSE <<>>
  /\ pc' = "ensure_header_has_target_mz"
  /\ UNCHANGED <<source, keep_mv_color, pass, before, report, mainvars>>

\* replace_colors(source, keep), for either value of keep
CallReplaceColors ==
  /\ pc = "call"
  /\ \E keep \in BOOLEAN :
       /\ keep_mv_color' = keep
       /\ LET r == replace_colors(source, keep)
          IN /\ text' = r.source
             /\ changes' = r.changes
  /\ pc' = "replace_colors"
  /\ UNCHANGED <<source, pass, before, report, mainvars>>

\* annotate_plugin_command_todos(source)
CallAnnotateTodos ==
  /\ pc = "call"
  /\ LET r == annotate_plugin_command_todos(source)
     IN /\ text' = r.source
        /\ changes' = r.changes
  /\ pc' = "annotate_plugin_command_todos"
  /\ UNCHANGED <<source, keep_mv_color, pass, before, report, mainvars>>

NextStages == CallEnsureHeader \/ CallReplaceColors \/ CallAnnotateTodos

SpecStages == InitStages /\ [][NextStages]_vars

\* ------------------------------------------------------------------ main

\* The most input paths on a command line.
MaxInputs == 2

\* A path is a base name, the number of _MZ the stem ends with, and whether
\* .report.txt follows the .js suffix: X.js, X_MZ.js, X_MZ.js.report.txt.
Path(base, mz, rep) == [base |-> base, mz |-> mz, rep |-> rep]
Paths == {Path(b, mz, rep) : b \in {"X", "Y"}, mz \in 0..2, rep \in BOOLEAN}

\* The paths a command line may list.
InputPaths == {Path("X", 0, FALSE), Path("X", 1, FALSE), Path("Y", 0, FALSE)}

\* args.output when -o is not given.
NoOutput == <<>>

\* in_path.with_name(in_path.stem + "_MZ" + in_path.suffix)
with_MZ(in_path) == [in_path EXCEPT !.mz = @ + 1]

\* out_path.with_suffix(out_path.suffix + ".report.txt")
report_path(out_path) == [out_path EXCEPT !.rep = TRUE]

\* What the files hold when main starts.
Contents == {<<IDENT>>, <<"this.hpColor", LPAREN, RPAREN>>}
Missing == [exists |-> FALSE, data |-> <<>>]
File(data) == [exists |-> TRUE, data |-> data]

\* The text of the sidecar report, a line per token.
report_text(lines) ==
  IF lines # <<>>
    THEN <<"Conversion report for">> \o [k \in 1..Len(lines) |-> lines[k].of]
    ELSE <<"No heuristic changes were necessary.">>

in_path == args.inputs[idx]

out_path ==
  IF args.inplace THEN in_path
  ELSE IF args.output # NoOutput THEN args.output[1]
  ELSE with_MZ(in_path)

InitMain ==
  /\ source = <<>>
  /\ keep_mv_color \in BOOLEAN
  /\ pc = "main"
  /\ pass = 1
  /\ text = <<>>
  /\ before = <<>>
  /\ changes = <<>>
  /\ report = <<>>
  /\ \E n \in 1..MaxInputs :
       \E inputs \in [1..n -> InputPaths] :
         \E output \in {NoOutput, <<Path("Y", 1, FALSE)>>} :
           \E inplace \in BOOLEAN :
             args = [inputs |-> inputs, output |-> output, inplace |-> inplace]
  /\ \E given \in [InputPaths -> {Missing} \cup {File(c) : c \in Contents}] :
       fs = [p \in Paths |-> IF p \in InputPaths THEN given[p] ELSE Missing]
  /\ fs0 = fs
  /\ idx = 0
  /\ mpc = "args"
  /\ local = NoLocal
  /\ overall_ok = TRUE
  /\ status = -1
  /\ out = <<>>

\* if args.output and len(args.inputs) != 1: return 2
OutputWithManyInputs ==
  /\ mpc = "args"
  /\ args.output # NoOutput /\ Len(args.inputs) # 1
  /\ status' = 2
  /\ mpc' = "returned"
  /\ UNCHANGED <<args, fs, fs0, idx, local, overall_ok, out, textvars>>

\* overall_ok = True, and the loop starts
StartLoop ==
  /\ mpc = "args"
  /\ ~(args.output # NoOutput /\ Len(args.inputs) # 1)
  /\ overall_ok' = TRUE
  /\ idx' = 1
  /\ mpc' = "for"
  /\ UNCHANGED <<args, fs, fs0, local, status, out, textvars>>

\* for input_path_str in args.inputs: the input is missing
NotFound ==
  /\ mpc = "for"
  /\ idx <= Len(args.inputs)
  /\ ~fs[in_path].exists
  /\ out' = Append(out, <<"not found", idx>>)
  /\ overall_ok' = FALSE
  /\ idx' = idx + 1
  /\ UNCHANGED <<args, fs, fs0, mpc, local, status, textvars>>

\* text = in_path.read_text(encoding="utf-8")
ReadText ==
  /\ mpc = "for"
  /\ idx <= Len(args.inputs)
  /\ fs[in_path].exists
  /\ local' = [NoLocal EXCEPT !.text = fs[in_path].data]
  /\ mpc' = "convert"
  /\ UNCHANGED <<args, fs, fs0, idx, overall_ok, status, out, textvars>>

\* read_text raises
ReadFails ==
  /\ mpc = "for"
  /\ idx <= Len(args.inputs)
  /\ fs[in_path].exists
  /\ out' = Append(out, <<"failed to read", idx>>)
  /\ overall_ok' = FALSE
  /\ idx' = idx + 1
  /\ UNCHANGED <<args, fs, fs0, mpc, local, status, textvars>>

\* converted, report = convert_text(text, keep_mv_color=args.keep_mv_color)
Convert ==
  /\ mpc = "convert"
  /\ LET r == convert_text(local.text, keep_mv_color)
     IN local' = [local EXCEPT !.converted = r.source, !.report = r.report]
  /\ mpc' = "write"
  /\ UNCHANGED <<args, fs, fs0, idx, overall_ok, status, out, textvars>>

\* out_path.write_text(converted, encoding="utf-8")
WriteText ==
  /\ mpc = "write"
  /\ fs' = [fs EXCEPT ![out_path] = File(local.converted)]
  /\ mpc' = "report"
  /\ UNCHANGED <<args, fs0, idx, local, overall_ok, status, out, textvars>>

\* write_text raises
WriteFails ==
  /\ mpc = "write"
  /\ out' = Append(out, <<"failed to write", idx>>)
  /\ overall_ok' = FALSE
  /\ idx' = idx + 1
  /\ mpc' = "for"
  /\ UNCHANGED <<args, fs, fs0, local, status, textvars>>

\* report_path.write_text(report_text, encoding="utf-8"), then [OK] is printed
WriteReport ==
  /\ mpc = "report"
  /\ fs' = [fs EXCEPT ![report_path(out_path)] = File(report_text(local.report))]
  /\ out' = Append(out, <<"ok", idx>>)
  /\ idx' = idx + 1
  /\ mpc' = "for"
  /\ UNCHANGED <<args, fs0, local, overall_ok, status, textvars>>

\* the write of the report raises: the except clause prints, and [OK] is
\* printed all the same
WriteReportFails ==
  /\ mpc = "report"
  /\ out' = out \o <<<<"failed to write report", idx>>, <<"ok", idx>>>>
  /\ idx' = idx + 1
  /\ mpc' = "for"
  /\ UNCHANGED <<args, fs, fs0, local, overall_ok, status, textvars>>

\* return 0 if overall_ok else 1
Return ==
  /\ mpc = "for"
  /\ idx > Len(args.inputs)
  /\ status' = IF overall_ok THEN 0 ELSE 1
  /\ mpc' = "returned"
  /\ UNCHANGED <<args, fs, fs0, idx, local, overall_ok, out, textvars>>

NextMain ==
  \/ OutputWithManyInputs \/ StartLoop \/ NotFound \/ ReadText \/ ReadFails \/ Convert
  \/ WriteText \/ WriteFails \/ WriteReport \/ WriteReportFails \/ Return

SpecMain == InitMain /\ [][NextMain]_vars

\* ------------------------------------------------------------------ what the claims speak of

Range(s) == {s[k] : k \in 1..Len(s)}
Methods == Range(WINDOW_BASE_TO_STATUSBASE_METHODS)
Entries == Range(COLOR_REPLACEMENTS)

\* The tokens lit stand in t from position p on, between two word boundaries.
WordDelimitedAt(t, p, lit) ==
  LiteralAt(t, p, lit) /\ WordBoundary(t, p) /\ WordBoundary(t, p + Len(lit))

\* Where t holds the piece.
CopiesOf(piece, t) == {p \in 1..Len(t) : LiteralAt(t, p, piece)}

\* Where t holds Window_Base.prototype.<m> as a whole qualified name.
OldReferences(m, t) ==
  {p \in 1..Len(t) : WordDelimitedAt(t, p, <<WINDOW_BASE>> \o MethodTokens(m))}

\* Where t holds Window_StatusBase.prototype.<m> as a whole qualified name.
NewReferences(m, t) ==
  {p \in 1..Len(t) : WordDelimitedAt(t, p, <<WINDOW_STATUSBASE>> \o MethodTokens(m))}

\* Where t holds Game_Interpreter.prototype.pluginCommand as a whole name.
Signatures(t) == {p \in 1..Len(t) : WordDelimitedAt(t, p, <<PLUGIN_COMMAND>>)}

\* Where t holds a call this.<helper>(...) that the entry's pattern matches.
CallSites(e, t) == {p \in 1..Len(t) : MatchColor(e, t, p).ok}

\* Where t holds a call ColorManager.<helper>(
NewCalls(e, t) == CopiesOf(<<e.cm, LPAREN>>, t)

\* How many lines of the report are this line.
CountLines(lines, line) == Cardinality({k \in 1..Len(lines) : lines[k] = line})

\* The lines of the report that an entry of COLOR_REPLACEMENTS wrote.
ColorLinesOf(e, lines) == {k \in 1..Len(lines) : lines[k].kind = "color" /\ lines[k].of = e.this}

Reverse(s) == [k \in 1..Len(s) |-> s[Len(s) + 1 - k]]

\* The first header block of t, <<>> when there is none.
FirstHeader(t) ==
  IF HEADER_BLOCK_RE(t).start = 0 THEN <<>>
  ELSE SubSeq(t, HEADER_BLOCK_RE(t).start, HEADER_BLOCK_RE(t).end)

\* ------------------------------------------------------------------ C1

\* C1 (as stated): when the result of convert_text is converted a second time,
\* the second report holds neither the header line nor any Window_Base line.
C1_SecondReportHasNoHeaderOrWindowLine ==
  (pass = 2 /\ pc = "done") =>
    \A k \in 1..Len(report) : report[k].kind \notin {"header", "window"}

\* ------------------------------------------------------------------ C3

\* C3: stage 2 rewrites exactly the owner of every whole qualified name
\* Window_Base.prototype.<m>, m in the catalog, and nothing else, the same
\* whatever the order of the catalog; it reports m once iff m occurred; and
\* the output of convert_text holds no such name any more, each one now
\* reading Window_StatusBase.prototype.<m>.
C3_OldReferencesMigrated ==
  /\ (pc = "replace_colors") =>
       /\ Len(text) = Len(before)
       /\ \A p \in 1..Len(before) :
            text[p] = IF \E m \in Methods : p \in OldReferences(m, before)
                        THEN WINDOW_STATUSBASE
                        ELSE before[p]
       /\ \A m \in Methods :
            CountLines(changes, WindowLine(m))
              = IF OldReferences(m, before) # {} THEN 1 ELSE 0
       /\ Len(changes) = Cardinality({m \in Methods : OldReferences(m, before) # {}})
       /\ WindowLoop(Reverse(WINDOW_BASE_TO_STATUSBASE_METHODS), 1,
                     [source |-> before, changes |-> <<>>]).source = text
  /\ (pc = "done") =>
       \A m \in Methods :
         /\ OldReferences(m, text) = {}
         /\ Cardinality(NewReferences(m, text))
              = Cardinality(NewReferences(m, source)) + Cardinality(OldReferences(m, source))
         /\ CountLines(report, WindowLine(m))
              = IF OldReferences(m, source) # {} THEN 1 ELSE 0

\* An input that names drawActorHp and drawActorHpGauge has been converted.
C3_Witness ==
  /\ pc = "done"
  /\ pass = 1
  /\ OldReferences("drawActorHp", source) # {}
  /\ OldReferences("drawActorHpGauge", source) # {}
  /\ NewReferences("drawActorHpGauge", text) # {}

\* ------------------------------------------------------------------ C7

\* Stages 1, 2 and 4 alone.
WithoutColors(t) ==
  LET s1 == ensure_header_has_target_mz(t)
      s2 == replace_window_base_methods(s1.source)
      s4 == annotate_plugin_command_todos(s2.source)
  IN [source |-> s4.source,
      report |-> (IF s1.changed THEN <<HeaderLine>> ELSE <<>>) \o s2.changes \o s4.changes]

\* The call site of entry e at p, from this.<helper> to its ).
CallSpan(e, t, p) == SubSeq(t, p, MatchColor(e, t, p).last)

\* No other stage edits inside the call site: it holds no line terminator, no
\* header opener, no Window_Base name of the catalog and no pluginCommand
\* signature.
Untouched(e, t, p) ==
  \A k \in p..MatchColor(e, t, p).last :
    /\ t[k] \notin {LF, CRLF, OPEN}
    /\ \A m \in Methods : k \notin OldReferences(m, t)
    /\ k \notin Signatures(t)

\* C7 (as stated): with keep_mv_color set, text and report are those of
\* stages 1, 2 and 4 alone, the report holds no color line, and every call
\* site this.<helper>(...) of the input stands unchanged in the output.
C7_EveryCallSiteKept ==
  (pc = "done" /\ keep_mv_color) =>
    /\ text = WithoutColors(source).source
    /\ report = WithoutColors(source).report
    /\ \A e \in Entries : ColorLinesOf(e, report) = {}
    /\ \A e \in Entries : \A p \in CallSites(e, source) :
         CopiesOf(CallSpan(e, source, p), text) # {}

\* C7 (amended): with keep_mv_color set, replace_colors hands its text on
\* unchanged with an empty change list; text and report of convert_text are
\* those of stages 1, 2 and 4 alone; the report holds no color line; and every
\* call site of the input that no other stage edits inside stands unchanged in
\* the output.
C7_KeepSkipsColors ==
  keep_mv_color =>
    /\ (pc = "annotate_todos") => (text = before /\ changes = <<>>)
    /\ (pc = "done") =>
         /\ text = WithoutColors(source).source
         /\ report = WithoutColors(source).report
         /\ \A e \in Entries : ColorLinesOf(e, report) = {}
         /\ \A e \in Entries : \A p \in CallSites(e, source) :
              Untouched(e, source, p) => CopiesOf(CallSpan(e, source, p), text) # {}

\* A text with a call site was converted with keep_mv_color set, another
\* stage changed the text, and the call site is still there.
C7_Witness ==
  /\ pc = "done"
  /\ pass = 1
  /\ keep_mv_color
  /\ text # source
  /\ \E e \in Entries : \E p \in CallSites(e, source) :
       Untouched(e, source, p) /\ CopiesOf(CallSpan(e, source, p), text) # {}

\* ------------------------------------------------------------------ C8

\* Nothing in t that a stage acts on.
NothingRecognised(t, keep) ==
  /\ FirstHeader(t) = <<>> \/ HasTarget(FirstHeader(t))
  /\ \A m \in Methods : OldReferences(m, t) = {}
  /\ keep \/ \A e \in Entries : CallSites(e, t) = {}
  /\ Signatures(t) = {}

\* C8: the report of convert_text is empty iff the result text is the input
\* text (and so for each stage: it returns changes iff it changed the text);
\* an input that holds nothing a stage acts on comes back unchanged with an
\* empty report.
C8_EmptyReportIffUnchanged ==
  /\ (changes = <<>>) <=> (text = before)
  /\ (pc = "done") =>
       /\ (report = <<>>) <=> (text = source)
       /\ NothingRecognised(source, keep_mv_color) => (text = source /\ report = <<>>)

\* A text with a header block that holds the marker came back unchanged.
C8_Witness ==
  /\ pc = "done"
  /\ FirstHeader(source) # <<>>
  /\ report = <<>>
  /\ text = source

\* ------------------------------------------------------------------ C2

\* C2 (as stated): after replace_colors(source, False), for every entry with
\* N >= 1 call sites this.<helper>(x) in the input, the report holds exactly
\* one line of the entry, and it counts N, and the text holds N more calls
\* ColorManager.<helper>( than the input; an entry with no call site writes
\* no line and adds no call.
C2_EveryCallSiteReplacedAndCounted ==
  (pc = "replace_colors" /\ ~keep_mv_color) =>
    \A e \in Entries :
      LET N == Cardinality(CallSites(e, source))
      IN /\ Cardinality(NewCalls(e, text)) = Cardinality(NewCalls(e, source)) + N
         /\ Cardinality(ColorLinesOf(e, changes)) = IF N >= 1 THEN 1 ELSE 0
         /\ N >= 1 => CountLines(changes, ColorLine(e, N)) = 1

\* ------------------------------------------------------------------ C4

\* Where the token at p of the input stands in the output when each of the
\* signatures at or before p has the annotation put in front of it.
Shifted(t, p) == p + Len(TODO) * Cardinality({q \in Signatures(t) : q <= p})

\* The output is the input with one annotation in front of each signature.
OnlyAnnotationsInserted(input, output) ==
  /\ Len(output) = Len(input) + Len(TODO) * Cardinality(Signatures(input))
  /\ \A p \in 1..Len(input) : output[Shifted(input, p)] = input[p]
  /\ \A p \in Signatures(input) :
       /\ LiteralAt(output, Shifted(input, p) - Len(TODO), TODO)
       /\ Shifted(input, p) \in Signatures(output)
  /\ Cardinality(Signatures(output)) = Cardinality(Signatures(input))

\* C4 (as stated): annotate_plugin_command_todos only inserts, one annotation
\* in front of each of the k signatures, and the output holds exactly k
\* copies of the annotation text; the report holds its one line iff k >= 1.
C4_ExactlyKCopies ==
  (pc = "annotate_plugin_command_todos") =>
    /\ OnlyAnnotationsInserted(source, text)
    /\ Cardinality(CopiesOf(TODO, text)) = Cardinality(Signatures(source))
    /\ changes = IF Signatures(source) # {} THEN <<TodoLine>> ELSE <<>>

\* C4 (amended): annotate_plugin_command_todos only inserts: the output is the
\* input with k copies of the annotation put in, one ending right before each
\* of the k signatures, every signature and all other text as in the input
\* (what the input held of the annotation text stays, so the output may hold
\* more than k copies); the report holds its one line iff k >= 1.
C4_OnlyInserts ==
  (pc = "annotate_plugin_command_todos") =>
    /\ OnlyAnnotationsInserted(source, text)
    /\ changes = IF Signatures(source) # {} THEN <<TodoLine>> ELSE <<>>

\* A text with two signatures was annotated.
C4_Witness ==
  /\ pc = "annotate_plugin_command_todos"
  /\ Cardinality(Signatures(source)) = 2
  /\ Cardinality(CopiesOf(TODO, text)) = 2
  /\ changes = <<TodoLine>>

\* ------------------------------------------------------------------ C5

\* The ways to write the line " * @target MZ" into a text.
MarkerLines == {<<TARGET_LINE, nl>> : nl \in {LF, CRLF}} \cup {<<nl, TARGET_LINE>> : nl \in {LF, CRLF}}

\* C5 (as stated): when the first header block lacks the marker,
\* ensure_header_has_target_mz returns the input with the one line
\* " * @target MZ" added between the opener and the closer of that block and
\* nothing else changed.
C5_MarkerLineInsideFirstHeader ==
  (pc = "ensure_header_has_target_mz" /\ FirstHeader(source) # <<>>
     /\ ~HasTarget(FirstHeader(source))) =>
    /\ changes = <<HeaderLine>>
    /\ \E k \in HEADER_BLOCK_RE(source).start..(HEADER_BLOCK_RE(source).end - 1) :
         \E line \in MarkerLines :
           text = SubSeq(source, 1, k) \o line \o SubSeq(source, k + 1, Len(source))

\* ------------------------------------------------------------------ C9

\* C9 (as stated): the text replace_colors(source, False) returns holds no
\* call site of any entry any more, and replace_colors changes and reports
\* nothing on it.
C9_NoCallSiteLeft ==
  (pc = "replace_colors" /\ ~keep_mv_color) =>
    /\ \A e \in Entries : CallSites(e, text) = {}
    /\ replace_colors(text, FALSE) = [source |-> text, changes |-> <<>>]

\* ------------------------------------------------------------------ C6

\* The inputs main printed a failure for.
Failed ==
  {out[k][2] : k \in {j \in 1..Len(out) :
                        out[j][1] \in {"not found", "failed to read", "failed to write",
                                       "failed to write report"}}}

\* The inputs main got through with, one way or another, in the order it did.
Attempted ==
  LET ends == {"not found", "failed to read", "failed to write", "ok"}
      RECURSIVE Pick(_)
      Pick(k) == IF k > Len(out) THEN <<>>
                 ELSE IF out[k][1] \in ends THEN <<out[k][2]>> \o Pick(k + 1)
                 ELSE Pick(k + 1)
  IN Pick(1)

\* C6 (as stated): when main returns from the loop, every input was attempted
\* in order, and the success flag is false, and the status not 0, iff an
\* input was missing or its read, its write or the write of its report failed.
C6_StatusTellsEveryFailure ==
  (mpc = "returned" /\ status # 2) =>
    /\ Attempted = [k \in 1..Len(args.inputs) |-> k]
    /\ ~overall_ok <=> (Failed # {})
    /\ (status # 0) <=> (Failed # {})

\* ------------------------------------------------------------------ C10

\* C10 (as stated): with neither --inplace nor --output, every file listed as
\* an input holds what it held when main started, and each input is converted
\* from what it held then.
C10_InputsNeverWritten ==
  (~args.inplace /\ args.output = NoOutput) =>
    /\ \A k \in 1..Len(args.inputs) : fs[args.inputs[k]] = fs0[args.inputs[k]]
    /\ (mpc = "convert") => (local.text = fs0[in_path].data)

====
